---- MODULE Spec2Model ----
(***************************************************************************)
(* Model of the type-test prototype: the type algebra and unification of   *)
(* src/type-test/src/ty.rs and the inference walk of                       *)
(* src/type-test/src/expr.rs.                                              *)
(***************************************************************************)
EXTENDS Integers, Sequences, FiniteSets, TLC

VARIABLES x, y, ures, urev, vres, expr, ctx0, ires, ustack, uret

vars == <<x, y, ures, urev, vres, expr, ctx0, ires, ustack, uret>>

(***************************************************************************)
(* Bounds                                                                  *)
(***************************************************************************)
\* number of Func nodes allowed in a type drawn as an input of unify
MaxFuncs == 2

\* number of nodes allowed in an expression drawn as an input of infer
MaxExprSize == 5

\* number of Func nodes allowed in a type unified step by step
MaxStepFuncs == 2

\* number of constructors wrapped around the two uses of a let-bound name
MaxUseWrap == 2

NamedTags == {"Number", "Bool"}
VarNames == {"a", "b"}

(***************************************************************************)
(* enum Ty (ty.rs:4-8)                                                     *)
(***************************************************************************)
Named(n) == [tag |-> "Named", name |-> n]

Variable(n) == [tag |-> "Variable", name |-> n]

Func(f, t) == [tag |-> "Func", from |-> f, to |-> t]

\* Substitutions::default(): the empty map
EmptySubs == [n \in {} |-> Named("Number")]

Singleton(n, t) == [m \in {n} |-> t]

\* outcomes of a call: a returned value or a panic that unwinds the caller
Ok(s) == [kind |-> "ok", subs |-> s]

Panic(m) == [kind |-> "panic", msg |-> m]

\* Ty::apply_subs
RECURSIVE apply_subs(_, _)
apply_subs(t, subs) ==
  CASE t.tag = "Named" -> t
    [] t.tag = "Variable" -> IF t.name \in DOMAIN subs THEN subs[t.name] ELSE t
    [] t.tag = "Func" -> Func(apply_subs(t.from, subs), apply_subs(t.to, subs))

\* Substitutions += Substitutions: the older map's types get the newer map
\* applied, then the newer bindings are inserted (overwriting)
AddAssign(a, b) ==
  [n \in DOMAIN a \cup DOMAIN b |->
     IF n \in DOMAIN b THEN b[n] ELSE apply_subs(a[n], b)]

RECURSIVE contains(_, _)

\* contains with the to side of a Func left unsearched
contains_from_only(t, name) ==
  CASE t.tag = "Named" -> FALSE
    [] t.tag = "Variable" -> t.name = name
    [] t.tag = "Func" -> contains(t.from, name)

\* Ty::contains
contains(t, name) ==
  CASE t.tag = "Named" -> FALSE
    [] t.tag = "Variable" -> t.name = name
    [] t.tag = "Func" -> contains(t.from, name) \/ contains(t.to, name)

\* Ty::var_bind (self is the type, name the variable)
\* var_bind that checks but inserts no binding
var_bind_forgets(t, name) ==
  IF t.tag = "Variable" /\ t.name = name THEN Ok(EmptySubs)
  ELSE IF contains(t, name) THEN Panic("Type contains self reference")
  ELSE Ok(EmptySubs)

var_bind(t, name) ==
  IF t.tag = "Variable" /\ t.name = name THEN Ok(EmptySubs)
  ELSE IF contains(t, name) THEN Panic("Type contains self reference")
  ELSE Ok(Singleton(name, t))

RECURSIVE unify(_, _)

\* unify with the to sides unified as they stand, the substitution of the
\* from sides not applied to them
unify_stale_to(a, b) ==
  CASE a.tag = "Named" /\ b.tag = "Named" /\ a.name = b.name -> Ok(EmptySubs)
    [] a.tag = "Variable" -> var_bind(b, a.name)
    [] a.tag # "Variable" /\ b.tag = "Variable" -> var_bind(a, b.name)
    [] a.tag = "Func" /\ b.tag = "Func" ->
         LET s1 == unify(a.from, b.from) IN
           IF s1.kind # "ok" THEN s1
           ELSE LET s2 == unify(a.to, b.to) IN
                  IF s2.kind # "ok" THEN s2
                  ELSE Ok(AddAssign(s1.subs, s2.subs))
    [] OTHER -> Panic("Type mismatch")

\* Ty::unify
unify(a, b) ==
  CASE a.tag = "Named" /\ b.tag = "Named" /\ a.name = b.name -> Ok(EmptySubs)
    [] a.tag = "Variable" -> var_bind(b, a.name)
    [] a.tag # "Variable" /\ b.tag = "Variable" -> var_bind(a, b.name)
    [] a.tag = "Func" /\ b.tag = "Func" ->
         LET s1 == unify(a.from, b.from) IN
           IF s1.kind # "ok" THEN s1
           ELSE LET s2 == unify(apply_subs(a.to, s1.subs), apply_subs(b.to, s1.subs)) IN
                  IF s2.kind # "ok" THEN s2
                  ELSE Ok(AddAssign(s1.subs, s2.subs))
    [] OTHER -> Panic("Type mismatch")

(***************************************************************************)
(* Context (the environment and its counter of fresh type variables)       *)
(***************************************************************************)
EmptyEnv == [n \in {} |-> Named("Number")]

\* Context::default()
EmptyContext == [env |-> EmptyEnv, next |-> 0]

Unbound(n) == [kind |-> "err", err |-> "UnboundVariable", name |-> n]

\* Context::get
ctx_get(ctx, name) ==
  IF name \in DOMAIN ctx.env THEN [kind |-> "ok", ty |-> ctx.env[name]]
  ELSE Unbound(name)

\* Context::with: a new context, the receiver is left alone
ctx_with(ctx, name, ty) ==
  [ctx EXCEPT !.env = [n \in DOMAIN ctx.env \cup {name} |->
                         IF n = name THEN ty ELSE ctx.env[n]]]

\* Context::substitute: a new context with every bound type substituted
ctx_substitute(ctx, subs) ==
  [ctx EXCEPT !.env = [n \in DOMAIN ctx.env |-> apply_subs(ctx.env[n], subs)]]

\* the name the counter value n stands for
TyVarName(n) == "T" \o ToString(n)

\* Context::new_ty_variable: the variable minted and the context afterwards
new_ty_variable(ctx) ==
  [ty |-> Variable(TyVarName(ctx.next)), ctx |-> [ctx EXCEPT !.next = ctx.next + 1]]

(***************************************************************************)
(* enum Expr (expr.rs:8-16)                                                *)
(***************************************************************************)
ENumber(v) == [tag |-> "Number", value |-> v]

EVariable(n) == [tag |-> "Variable", name |-> n]

EFunc(p, b) == [tag |-> "Func", param |-> p, body |-> b]

ECall(f, a) == [tag |-> "Call", func |-> f, arg |-> a]

EIf(c, t, f) == [tag |-> "If", condition |-> c, true_branch |-> t, false_branch |-> f]

ELet(n, e, b) == [tag |-> "Let", name |-> n, expr |-> e, body |-> b]

(***************************************************************************)
(* Expr::infer.  A result carries, besides what the code returns, the      *)
(* caller's context as the call left it (ctx is a &mut), the history of    *)
(* the run (log: the variables minted and the failures raised, in order),  *)
(* the number of infer calls made (calls) and what the direct              *)
(* subexpressions returned (parts).  A failure carries the place that raised *)
(* it (site), the types handed to the unify that raised it (operands) and  *)
(* the number of callers it has been propagated through (depth).           *)
(***************************************************************************)
Mint(t) == [ev |-> "mint", name |-> t.name]

Raised(f) == [ev |-> "raise", failure |-> f]

Part(r) == [ty |-> r.ty, subs |-> r.subs]

IOk(ty, subs, ctx, log, calls, parts) ==
  [kind |-> "ok", ty |-> ty, subs |-> subs, ctx |-> ctx, log |-> log, calls |-> calls,
   parts |-> parts]

\* a failure f raised here, after the history log
Raise(f, site, operands, log, calls) ==
  f @@ [site |-> site, operands |-> operands, depth |-> 0,
        log |-> Append(log, Raised(f)), calls |-> calls]

\* the failure r of a callee propagated by ?, after the history log
Propagate(r, log, calls) ==
  [r EXCEPT !.log = log \o r.log, !.calls = calls + r.calls, !.depth = r.depth + 1]

\* Ty::try_into_func().expect("Should still be a func type here")
try_into_func(t) ==
  IF t.tag = "Func" THEN [kind |-> "ok", ty |-> t]
  ELSE Panic("Should still be a func type here")

RECURSIVE Infer(_, _)

\* FuncExpr::infer
InferFunc(e, ctx) ==
  LET m == new_ty_variable(ctx)
      param_ty == m.ty
      inner == ctx_with(m.ctx, e.param, param_ty)
      log0 == <<Mint(param_ty)>>
      b == Infer(e.body, inner)
  IN IF b.kind # "ok" THEN Propagate(b, log0, 1)
     ELSE IOk(Func(apply_subs(param_ty, b.subs), b.ty), b.subs, m.ctx,
              log0 \o b.log, 1 + b.calls, <<Part(b)>>)

\* CallExpr::infer
InferCall(e, ctx) ==
  LET f == Infer(e.func, ctx) IN
  IF f.kind # "ok" THEN Propagate(f, <<>>, 1)
  ELSE
  LET a == Infer(e.arg, ctx_substitute(f.ctx, f.subs))
      log1 == f.log
      n1 == 1 + f.calls
  IN
  IF a.kind # "ok" THEN Propagate(a, log1, n1)
  ELSE
  LET m == new_ty_variable(f.ctx)
      new_var == m.ty
      subs1 == AddAssign(f.subs, a.subs)
      log2 == (log1 \o a.log) \o <<Mint(new_var)>>
      n2 == n1 + a.calls
      u1 == unify(Func(a.ty, new_var), f.ty)
  IN
  IF u1.kind # "ok" THEN Raise(u1, "Call.shape", <<Func(a.ty, new_var), f.ty>>, log2, n2)
  ELSE
  LET narrowed == try_into_func(apply_subs(f.ty, u1.subs)) IN
  IF narrowed.kind # "ok" THEN Raise(narrowed, "Call.narrow", <<apply_subs(f.ty, u1.subs)>>, log2, n2)
  ELSE
  LET func_ty == narrowed.ty
      subs2 == AddAssign(subs1, u1.subs)
      u2 == unify(apply_subs(func_ty.from, subs2), a.ty)
  IN
  IF u2.kind # "ok"
  THEN Raise(u2, "Call.arg", <<apply_subs(func_ty.from, subs2), a.ty>>, log2, n2)
  ELSE
  LET subs3 == AddAssign(subs2, u2.subs) IN
  IOk(apply_subs(func_ty.to, subs3), subs3, m.ctx, log2, n2, <<Part(f), Part(a)>>)

\* IfExpr::infer with the condition left unchecked against Bool
InferIf_any_condition(e, ctx) ==
  LET c == Infer(e.condition, ctx) IN
  IF c.kind # "ok" THEN Propagate(c, <<>>, 1)
  ELSE
  LET t == Infer(e.true_branch, ctx_substitute(c.ctx, c.subs)) IN
  IF t.kind # "ok" THEN Propagate(t, c.log, 1 + c.calls)
  ELSE
  LET f == Infer(e.false_branch, ctx_substitute(t.ctx, t.subs))
      log2 == c.log \o t.log
      n2 == 1 + c.calls + t.calls
  IN
  IF f.kind # "ok" THEN Propagate(f, log2, n2)
  ELSE
  LET subs2 == AddAssign(t.subs, f.subs)
      true_branch_ty == apply_subs(t.ty, subs2)
      false_branch_ty == apply_subs(f.ty, subs2)
      u1 == unify(true_branch_ty, false_branch_ty)
  IN
  IF u1.kind # "ok"
  THEN Raise(u1, "If.branches", <<true_branch_ty, false_branch_ty>>, log2 \o f.log,
             n2 + f.calls)
  ELSE IOk(apply_subs(true_branch_ty, u1.subs), AddAssign(subs2, u1.subs),
           c.ctx, log2 \o f.log, n2 + f.calls, <<Part(c), Part(t), Part(f)>>)

\* IfExpr::infer
InferIf(e, ctx) ==
  LET c == Infer(e.condition, ctx) IN
  IF c.kind # "ok" THEN Propagate(c, <<>>, 1)
  ELSE
  LET u0 == unify(c.ty, Named("Bool"))
      log1 == c.log
      n1 == 1 + c.calls
  IN
  IF u0.kind # "ok" THEN Raise(u0, "If.condition", <<c.ty, Named("Bool")>>, log1, n1)
  ELSE
  LET condition_subs == AddAssign(c.subs, u0.subs)
      ctx_t == ctx_substitute(c.ctx, condition_subs)
      t == Infer(e.true_branch, ctx_t)
  IN
  IF t.kind # "ok" THEN Propagate(t, log1, n1)
  ELSE
  LET subs1 == AddAssign(u0.subs, t.subs)
      ctx_f == ctx_substitute(t.ctx, t.subs)
      f == Infer(e.false_branch, ctx_f)
      log2 == log1 \o t.log
      n2 == n1 + t.calls
  IN
  IF f.kind # "ok" THEN Propagate(f, log2, n2)
  ELSE
  LET subs2 == AddAssign(subs1, f.subs)
      true_branch_ty == apply_subs(t.ty, subs2)
      false_branch_ty == apply_subs(f.ty, subs2)
      log3 == log2 \o f.log
      n3 == n2 + f.calls
      u1 == unify(true_branch_ty, false_branch_ty)
  IN
  IF u1.kind # "ok"
  THEN Raise(u1, "If.branches", <<true_branch_ty, false_branch_ty>>, log3, n3)
  ELSE IOk(apply_subs(true_branch_ty, u1.subs), AddAssign(subs2, u1.subs),
           c.ctx, log3, n3, <<Part(c), Part(t), Part(f)>>)

\* LetExpr::infer with a failure of the body replaced by the type of expr
InferLet_swallow(e, ctx) ==
  LET v == Infer(e.expr, ctx) IN
  IF v.kind # "ok" THEN Propagate(v, <<>>, 1)
  ELSE
  LET inner == ctx_with(ctx_substitute(v.ctx, v.subs), e.name, v.ty)
      b == Infer(e.body, inner)
  IN
  IF b.kind # "ok"
  THEN IOk(v.ty, v.subs, v.ctx, v.log \o b.log, 1 + v.calls + b.calls, <<Part(v)>>)
  ELSE IOk(b.ty, AddAssign(v.subs, b.subs), v.ctx, v.log \o b.log,
           1 + v.calls + b.calls, <<Part(v), Part(b)>>)

\* LetExpr::infer with expr inferred a second time, in the substituted
\* context, for the type the name is bound to
InferLet_twice(e, ctx) ==
  LET v0 == Infer(e.expr, ctx) IN
  IF v0.kind # "ok" THEN Propagate(v0, <<>>, 1)
  ELSE
  LET v == Infer(e.expr, ctx_substitute(v0.ctx, v0.subs)) IN
  IF v.kind # "ok" THEN Propagate(v, v0.log, 1 + v0.calls)
  ELSE
  LET inner == ctx_with(ctx_substitute(v.ctx, v.subs), e.name, v.ty)
      b == Infer(e.body, inner)
      log1 == v0.log \o v.log
      n1 == 1 + v0.calls + v.calls
  IN
  IF b.kind # "ok" THEN Propagate(b, log1, n1)
  ELSE IOk(b.ty, AddAssign(v.subs, b.subs), v.ctx, log1 \o b.log, n1 + b.calls,
           <<Part(v), Part(b)>>)

\* LetExpr::infer
InferLet(e, ctx) ==
  LET v == Infer(e.expr, ctx) IN
  IF v.kind # "ok" THEN Propagate(v, <<>>, 1)
  ELSE
  LET inner == ctx_with(ctx_substitute(v.ctx, v.subs), e.name, v.ty)
      b == Infer(e.body, inner)
  IN
  IF b.kind # "ok" THEN Propagate(b, v.log, 1 + v.calls)
  ELSE IOk(b.ty, AddAssign(v.subs, b.subs), v.ctx, v.log \o b.log,
           1 + v.calls + b.calls, <<Part(v), Part(b)>>)

\* Expr::infer
Infer(e, ctx) ==
  CASE e.tag = "Number" -> IOk(Named("Number"), EmptySubs, ctx, <<>>, 1, <<>>)
    [] e.tag = "Variable" ->
         LET g == ctx_get(ctx, e.name) IN
           IF g.kind # "ok" THEN Raise(g, "Variable", <<>>, <<>>, 1)
           ELSE IOk(g.ty, EmptySubs, ctx, <<>>, 1, <<>>)
    [] e.tag = "Func" -> InferFunc(e, ctx)
    [] e.tag = "Call" -> InferCall(e, ctx)
    [] e.tag = "If" -> InferIf(e, ctx)
    [] e.tag = "Let" -> InferLet(e, ctx)

(***************************************************************************)
(* Inputs                                                                  *)
(***************************************************************************)
TyLeaves == {Named(n) : n \in NamedTags} \cup {Variable(n) : n \in VarNames}

\* the types over the given leaves with at most k Func nodes
RECURSIVE TysUpTo(_, _)
TysUpTo(leaves, k) ==
  IF k = 0 THEN leaves
  ELSE TysUpTo(leaves, k - 1) \cup
       UNION {{Func(f, t) : f \in TysUpTo(leaves, i), t \in TysUpTo(leaves, k - 1 - i)}
                : i \in 0..(k - 1)}

Tys == TysUpTo(TyLeaves, MaxFuncs)

NoResult == [kind |-> "none"]

ExprNames == {"x", "y"}

NumberValues == {1}

ExprLeaves == {ENumber(v) : v \in NumberValues} \cup {EVariable(n) : n \in ExprNames}

\* the expressions of exactly k nodes
RECURSIVE ExprsOfSize(_)
ExprsOfSize(k) ==
  IF k < 1 THEN {}
  ELSE IF k = 1 THEN ExprLeaves
  ELSE {EFunc(p, b) : p \in ExprNames, b \in ExprsOfSize(k - 1)}
       \cup UNION {{ECall(f, a) : f \in ExprsOfSize(i), a \in ExprsOfSize(k - 1 - i)}
                     : i \in 1..(k - 2)}
       \cup UNION {{ELet(n, e, b) : n \in ExprNames, e \in ExprsOfSize(i),
                                    b \in ExprsOfSize(k - 1 - i)} : i \in 1..(k - 2)}
       \cup UNION {UNION {{EIf(c, t, f) : c \in ExprsOfSize(i), t \in ExprsOfSize(j),
                                          f \in ExprsOfSize(k - 1 - i - j)}
                            : j \in 1..(k - 2 - i)} : i \in 1..(k - 3)}

Exprs == UNION {ExprsOfSize(k) : k \in 1..MaxExprSize}

\* the types an initial context binds a name to
EnvTys ==
  {Named("Bool"), Func(Named("Number"), Named("Bool")), Variable("a"),
   Func(Variable("a"), Variable("b"))}

\* the initial contexts: any binding of some of the names, the counter at 0
InitContexts ==
  {[env |-> env, next |-> 0] :
     env \in UNION {[d -> EnvTys] : d \in SUBSET ExprNames}}

\* the let-bound function applied to a Bool (y, bound in the initial context)
\* and to a Number
UseAtBool == ECall(EVariable("x"), EVariable("y"))

UseAtNumber == ECall(EVariable("x"), ENumber(1))

UseAtoms == {UseAtBool, UseAtNumber}

\* the expressions of exactly k constructors over the two uses, binding only z
RECURSIVE UseBodies(_)
UseBodies(k) ==
  IF k < 0 THEN {}
  ELSE IF k = 0 THEN UseAtoms
  ELSE {EFunc("z", b) : b \in UseBodies(k - 1)}
       \cup UNION {{ECall(f, a) : f \in UseBodies(i), a \in UseBodies(k - 1 - i)}
                     : i \in 0..(k - 1)}
       \cup UNION {{ELet("z", e, b) : e \in UseBodies(i), b \in UseBodies(k - 1 - i)}
                     : i \in 0..(k - 1)}
       \cup UNION {UNION {{EIf(c, t, f) : c \in UseBodies(i), t \in UseBodies(j),
                                          f \in UseBodies(k - 1 - i - j)}
                            : j \in 0..(k - 1 - i)} : i \in 0..(k - 1)}

\* the subexpressions of an expression, itself included
RECURSIVE Subexprs(_)
Subexprs(e) ==
  {e} \cup
  CASE e.tag = "Func" -> Subexprs(e.body)
    [] e.tag = "Call" -> Subexprs(e.func) \cup Subexprs(e.arg)
    [] e.tag = "If" -> Subexprs(e.condition) \cup Subexprs(e.true_branch)
                         \cup Subexprs(e.false_branch)
    [] e.tag = "Let" -> Subexprs(e.expr) \cup Subexprs(e.body)
    [] OTHER -> {}

\* let x = identity in a body that applies x to a Bool and to a Number
LetTwoUses ==
  {ELet("x", EFunc("x", EVariable("x")), b) :
     b \in {u \in UNION {UseBodies(k) : k \in 1..MaxUseWrap} :
              {UseAtBool, UseAtNumber} \subseteq Subexprs(u)}}

\* an If whose condition is a Call of a name: inferring the condition
\* constrains the type of the name
IfOnCall ==
  {EIf(ECall(EVariable(f), a), t, e) :
     f \in ExprNames, a \in ExprLeaves, t \in ExprLeaves, e \in ExprLeaves}

\* a Func whose body is an If that calls the parameter in its condition
FuncOverIfExample ==
  EFunc("g", EIf(ECall(EVariable("g"), ENumber(1)), ENumber(1), ENumber(2)))

FuncOverIf ==
  {FuncOverIfExample} \cup
  {EFunc("x", EIf(ECall(EVariable("x"), a), t, e)) :
     a \in ExprLeaves, t \in ExprLeaves, e \in ExprLeaves}

NoExpr == ENumber(0)

\* inputs of the unification operations
Init ==
  /\ x \in Tys
  /\ y \in Tys
  /\ ures = NoResult
  /\ urev = NoResult
  /\ vres = NoResult
  /\ expr = NoExpr
  /\ ctx0 = EmptyContext
  /\ ires = NoResult
  /\ ustack = <<>>
  /\ uret = NoResult

\* x.unify(y)
Unify ==
  /\ ures = NoResult
  /\ ures' = unify(x, y)
  /\ UNCHANGED <<x, y, urev, vres, expr, ctx0, ires, ustack, uret>>

\* y.unify(x)
UnifySwapped ==
  /\ urev = NoResult
  /\ urev' = unify(y, x)
  /\ UNCHANGED <<x, y, ures, vres, expr, ctx0, ires, ustack, uret>>

\* y.var_bind(v) for the variable x = Variable(v) (the call of ty.rs:25)
VarBind ==
  /\ x.tag = "Variable"
  /\ vres = NoResult
  /\ vres' = var_bind(y, x.name)
  /\ UNCHANGED <<x, y, ures, urev, expr, ctx0, ires, ustack, uret>>

Next == Unify \/ UnifySwapped \/ VarBind

Spec == Init /\ [][Next]_vars

\* the context the two uses of a let-bound name are inferred in
BoolContext == [env |-> [n \in {"y"} |-> Named("Bool")], next |-> 0]

\* the inputs of one top-level inference run: an expression and a context
InferInputs ==
  (Exprs \X InitContexts) \cup (LetTwoUses \X {BoolContext})
    \cup (IfOnCall \X InitContexts) \cup (FuncOverIf \X InitContexts)

InitInfer ==
  /\ x = Named("Number")
  /\ y = Named("Number")
  /\ ures = NoResult
  /\ urev = NoResult
  /\ vres = NoResult
  /\ \E in \in InferInputs : expr = in[1] /\ ctx0 = in[2]
  /\ ires = NoResult
  /\ ustack = <<>>
  /\ uret = NoResult

\* expr.infer(&mut ctx0)
InferRun ==
  /\ ires = NoResult
  /\ ires' = Infer(expr, ctx0)
  /\ UNCHANGED <<x, y, ures, urev, vres, expr, ctx0, ustack, uret>>

NextInfer == InferRun

SpecInfer == InitInfer /\ [][NextInfer]_vars

(***************************************************************************)
(* Ty::unify call by call: ustack is the stack of the unify calls in       *)
(* progress and uret the value the call that just finished returned.       *)
(***************************************************************************)
Frame(a, b, phase, s1) == [a |-> a, b |-> b, phase |-> phase, s1 |-> s1]

Top == ustack[Len(ustack)]

Pop == SubSeq(ustack, 1, Len(ustack) - 1)

\* a call starts: every arm of the match but Func against Func returns at
\* once, Func against Func calls unify on the from sides (ty.rs:37)
UnifyEnter ==
  /\ ustack # <<>> /\ uret = NoResult
  /\ Top.phase = "enter"
  /\ LET a == Top.a
         b == Top.b
     IN IF a.tag = "Func" /\ b.tag = "Func"
        THEN /\ ustack' = Append(Append(Pop, Frame(a, b, "from", EmptySubs)),
                                  Frame(a.from, b.from, "enter", EmptySubs))
             /\ uret' = NoResult
        ELSE /\ ustack' = Pop
             /\ uret' = unify(a, b)
  /\ UNCHANGED <<x, y, ures, urev, vres, expr, ctx0, ires>>

\* a call returned a substitution to the Func arm that made it: after the
\* from sides the to sides are substituted and unified (ty.rs:39), after the
\* to sides the two substitutions are composed and returned (ty.rs:39-41)
UnifyResume ==
  /\ ustack # <<>> /\ uret # NoResult /\ uret.kind = "ok"
  /\ \/ /\ Top.phase = "from"
        /\ ustack' = Append(Append(Pop, Frame(Top.a, Top.b, "to", uret.subs)),
                             Frame(apply_subs(Top.a.to, uret.subs),
                                   apply_subs(Top.b.to, uret.subs), "enter", EmptySubs))
        /\ uret' = NoResult
     \/ /\ Top.phase = "to"
        /\ ustack' = Pop
        /\ uret' = Ok(AddAssign(Top.s1, uret.subs))
  /\ UNCHANGED <<x, y, ures, urev, vres, expr, ctx0, ires>>

\* a call panicked: the panic unwinds every call in progress (ty.rs:43, 51)
UnifyUnwind ==
  /\ ustack # <<>> /\ uret # NoResult /\ uret.kind = "panic"
  /\ ustack' = <<>>
  /\ uret' = uret
  /\ UNCHANGED <<x, y, ures, urev, vres, expr, ctx0, ires>>

StepTys == TysUpTo({Named("Number"), Variable("a"), Variable("b")}, MaxStepFuncs)

\* no job has been started yet
Idle == ustack = <<>> /\ uret = NoResult /\ expr = NoExpr /\ ires = NoResult

InitTerm ==
  /\ x = Named("Number")
  /\ y = Named("Number")
  /\ ures = NoResult
  /\ urev = NoResult
  /\ vres = NoResult
  /\ expr = NoExpr
  /\ ctx0 = EmptyContext
  /\ ires = NoResult
  /\ ustack = <<>>
  /\ uret = NoResult

\* x.unify(y) is called
StartUnify ==
  /\ Idle
  /\ x' \in StepTys
  /\ y' \in StepTys
  /\ ustack' = <<Frame(x', y', "enter", EmptySubs)>>
  /\ UNCHANGED <<ures, urev, vres, expr, ctx0, ires, uret>>

\* an expression and a context are handed to infer
StartInfer ==
  /\ Idle
  /\ \E in \in InferInputs : expr' = in[1] /\ ctx0' = in[2]
  /\ UNCHANGED <<x, y, ures, urev, vres, ires, ustack, uret>>

\* expr.infer(&mut ctx0), when the job is an inference
InferJob ==
  /\ expr # NoExpr
  /\ InferRun

\* the steps of a unification run
UnifySteps == StartUnify \/ UnifyEnter \/ UnifyResume \/ UnifyUnwind

NextTerm == UnifySteps \/ StartInfer \/ InferJob

\* the program is sequential: a unify call in progress always takes its next
\* step (an inference run is the single step InferJob)
SpecTerm == InitTerm /\ [][NextTerm]_vars /\ WF_vars(UnifySteps)

(***************************************************************************)
(* Properties of unification                                               *)
(***************************************************************************)
\* the names of the variables occurring in a type, at any depth
RECURSIVE FreeVars(_)
FreeVars(t) ==
  CASE t.tag = "Named" -> {}
    [] t.tag = "Variable" -> {t.name}
    [] t.tag = "Func" -> FreeVars(t.from) \cup FreeVars(t.to)

\* C1: unify(x, y) and unify(y, x) both succeed or both fail, and the
\* substitution either one returns maps x and y to the same type.
C1_UnifySymmetric ==
  (ures # NoResult /\ urev # NoResult) =>
    /\ (ures.kind = "ok") <=> (urev.kind = "ok")
    /\ ures.kind = "ok" =>
         /\ apply_subs(x, ures.subs) = apply_subs(y, ures.subs)
         /\ apply_subs(x, urev.subs) = apply_subs(y, urev.subs)

\* both directions succeeded on two Func types that share variables between
\* their from and to sides
C1_Witness ==
  /\ ures # NoResult /\ urev # NoResult
  /\ ures.kind = "ok" /\ urev.kind = "ok"
  /\ x.tag = "Func" /\ y.tag = "Func"
  /\ x.from.tag = "Variable" /\ y.to.tag = "Variable"
  /\ x.from # y.to
  /\ FreeVars(x.to) \cap FreeVars(y.from) # {}
  /\ DOMAIN ures.subs # {}

\* C2: var_bind(v, T) is the empty substitution when T is Variable(v), the
\* occurs-check failure when v occurs inside T at any depth, and {v -> T}
\* otherwise.
C2_VarBindOutcomes ==
  vres # NoResult =>
    IF y = Variable(x.name) THEN vres = Ok(EmptySubs)
    ELSE IF x.name \in FreeVars(y) THEN vres = Panic("Type contains self reference")
    ELSE vres = Ok(Singleton(x.name, y))

\* the occurs check fired on a variable nested two Func levels deep
C2_Witness ==
  /\ vres = Panic("Type contains self reference")
  /\ y.tag = "Func"
  /\ x.name \notin FreeVars(y.from)
  /\ y.to.tag = "Func"
  /\ x.name \in FreeVars(y.to)

\* a failure handed back to the caller as a value
Err(e) == [kind |-> "err", err |-> e]

\* C3: with no Variable operand, Named(a) vs Named(a) gives the empty
\* substitution, and Named(a) vs Named(b) with a # b and Named vs Func (in
\* either order) give a returned TypeMismatch error value, not an abort.
C3_MismatchIsReturned ==
  (ures # NoResult /\ x.tag # "Variable" /\ y.tag # "Variable") =>
    IF x.tag = "Named" /\ y.tag = "Named"
    THEN IF x.name = y.name THEN ures = Ok(EmptySubs) ELSE ures = Err("TypeMismatch")
    ELSE (x.tag = "Named" \/ y.tag = "Named") => ures = Err("TypeMismatch")

(***************************************************************************)
(* Properties of inference                                                 *)
(***************************************************************************)
\* the names minted during the run, in order
MintedNames(log) ==
  LET idx == {i \in 1..Len(log) : log[i].ev = "mint"} IN
    [i \in idx |-> log[i].name]

\* C4: within one top-level infer run no two fresh type variables get the
\* same name, whichever context (the ambient one or one derived by with or
\* substitute) minted them.
C4_FreshNamesDistinct ==
  ires # NoResult =>
    LET m == MintedNames(ires.log) IN
      \A i, j \in DOMAIN m : i # j => m[i] # m[j]

\* Func{p, Variable(p)}
IsIdentity(e) == e.tag = "Func" /\ e.body = EVariable(e.param)

\* the variables of a type, left to right
RECURSIVE VarSeq(_)
VarSeq(t) ==
  CASE t.tag = "Named" -> <<>>
    [] t.tag = "Variable" -> <<t.name>>
    [] t.tag = "Func" -> VarSeq(t.from) \o VarSeq(t.to)

RECURSIVE RenameByOrder(_, _)
RenameByOrder(t, order) ==
  CASE t.tag = "Named" -> t
    [] t.tag = "Variable" ->
         Variable(ToString(CHOOSE i \in 1..Len(order) :
                    order[i] = t.name /\ \A k \in 1..(i - 1) : order[k] # t.name))
    [] t.tag = "Func" -> Func(RenameByOrder(t.from, order), RenameByOrder(t.to, order))

\* a type with its variables renamed by order of first occurrence: two types
\* are equal up to renaming of variables iff their canonical forms are equal
Canon(t) == RenameByOrder(t, VarSeq(t))

\* C5: in the empty context the identity function infers Func(v, v), and the
\* identity applied to any e that infers to T infers to T, up to renaming.
C5_IdentityApplication ==
  (ires # NoResult /\ ctx0 = EmptyContext) =>
    /\ IsIdentity(expr) =>
         /\ ires.kind = "ok"
         /\ ires.ty.tag = "Func"
         /\ ires.ty.from.tag = "Variable"
         /\ ires.ty.to = ires.ty.from
    /\ (expr.tag = "Call" /\ IsIdentity(expr.func)) =>
         LET r == Infer(expr.arg, EmptyContext) IN
           r.kind = "ok" => (ires.kind = "ok" /\ Canon(ires.ty) = Canon(r.ty))

\* the part of C5 about e = Number(1)
C5_Number ==
  (ires # NoResult /\ ctx0 = EmptyContext /\ expr.tag = "Call"
     /\ IsIdentity(expr.func) /\ expr.arg.tag = "Number") =>
    (ires.kind = "ok" /\ ires.ty = Named("Number"))

\* the names an expression binds (Func parameters and Let names)
Binders(e) ==
  {s.param : s \in {u \in Subexprs(e) : u.tag = "Func"}}
    \cup {s.name : s \in {u \in Subexprs(e) : u.tag = "Let"}}

\* body applies the name n both to an argument bound to Bool in the context
\* and to a Number, and rebinds neither name
UsesAtBoolAndNumber(body, n, ctx) ==
  /\ \E u \in Subexprs(body) :
       /\ u.tag = "Call" /\ u.func = EVariable(n) /\ u.arg.tag = "Variable"
       /\ u.arg.name # n
       /\ u.arg.name \in DOMAIN ctx.env
       /\ ctx.env[u.arg.name] = Named("Bool")
       /\ u.arg.name \notin Binders(body)
  /\ \E u \in Subexprs(body) :
       u.tag = "Call" /\ u.func = EVariable(n) /\ u.arg.tag = "Number"
  /\ n \notin Binders(body)

\* C6: Let is monomorphic.  The body sees the one type inferred for expr
\* (Let{x, Number, Func{y, Variable(x)}} is Func(v, Number) for a fresh v, and
\* a body that is just the name has exactly expr's type); a let-bound identity
\* applied to itself, or applied to a Bool and to a Number, fails to infer.
C6_LetMonomorphic ==
  (ires # NoResult /\ expr.tag = "Let") =>
    /\ (expr.expr.tag = "Number" /\ expr.body.tag = "Func"
          /\ expr.body.param # expr.name /\ expr.body.body = EVariable(expr.name)) =>
         /\ ires.kind = "ok"
         /\ ires.ty.tag = "Func"
         /\ ires.ty.from = Variable(TyVarName(ctx0.next))
         /\ ires.ty.to = Named("Number")
    /\ expr.body = EVariable(expr.name) =>
         LET r == Infer(expr.expr, ctx0) IN
           r.kind = "ok" => (ires.kind = "ok" /\ ires.ty = r.ty)
    /\ (IsIdentity(expr.expr)
          /\ expr.body = ECall(EVariable(expr.name), EVariable(expr.name))) =>
         ires.kind # "ok"
    /\ (IsIdentity(expr.expr) /\ UsesAtBoolAndNumber(expr.body, expr.name, ctx0)) =>
         ires.kind # "ok"

\* the failure of the run is the mismatch raised by unify
IsTypeMismatch(r) == r.kind = "panic" /\ r.msg = "Type mismatch"

\* the failure of the run is the occurs-check failure raised by var_bind
IsInfiniteType(r) == r.kind = "panic" /\ r.msg = "Type contains self reference"

\* the If at the top of the run raised the failure itself, at the given unify
RaisedByIf(site) ==
  /\ expr.tag = "If" /\ ires # NoResult /\ ires.kind # "ok"
  /\ ires.depth = 0 /\ ires.site = site

\* a condition that infers to a type unify rejects against Bool fails the If
\* with TypeMismatch
C7_ConditionPart ==
  (ires # NoResult /\ expr.tag = "If") =>
    LET c == Infer(expr.condition, ctx0) IN
      (c.kind = "ok" /\ unify(c.ty, Named("Bool")).kind # "ok") =>
        (RaisedByIf("If.condition") /\ IsTypeMismatch(ires))

\* a successful If returns the type of both branches under its substitution
C7_SuccessPart ==
  (ires # NoResult /\ expr.tag = "If" /\ ires.kind = "ok") =>
    /\ ires.ty = apply_subs(ires.parts[2].ty, ires.subs)
    /\ ires.ty = apply_subs(ires.parts[3].ty, ires.subs)

\* C7 as stated: an If fails with TypeMismatch when its condition does not
\* unify with Bool and when its branch types do not unify with each other,
\* and a successful If returns the type of both branches.
C7_IfMismatchOnly ==
  /\ C7_ConditionPart
  /\ RaisedByIf("If.branches") => IsTypeMismatch(ires)
  /\ C7_SuccessPart

\* C7 amended: branch types that do not unify fail the If with TypeMismatch
\* or, when one branch type occurs inside the other, with the occurs-check
\* failure (InfiniteType).
C7_IfFailures ==
  /\ C7_ConditionPart
  /\ RaisedByIf("If.branches") =>
       /\ unify(ires.operands[1], ires.operands[2]).kind # "ok"
       /\ IsTypeMismatch(ires) \/ IsInfiniteType(ires)
       /\ IsInfiniteType(ires) =>
            \E v \in FreeVars(ires.operands[1]) \cup FreeVars(ires.operands[2]) :
              \/ ires.operands[1] # Variable(v) /\ v \in FreeVars(ires.operands[1])
              \/ ires.operands[2] # Variable(v) /\ v \in FreeVars(ires.operands[2])
  /\ C7_SuccessPart

\* the branches of an If did not unify because one is a variable that occurs
\* inside the other
C7_Witness ==
  /\ RaisedByIf("If.branches")
  /\ IsInfiniteType(ires)
  /\ ires.operands[1].tag = "Variable"
  /\ ires.operands[2].tag = "Func"

\* the raise events of a history
RaiseEvents(log) == {i \in 1..Len(log) : log[i].ev = "raise"}

\* C8: a Variable fails with UnboundVariable(name) exactly when the context
\* has no binding for name; and a failure raised anywhere in the run is the
\* outcome of the run: nothing is inferred after it, it is the one failure
\* of the run, and no type or substitution is returned.
C8_FailurePropagates ==
  ires # NoResult =>
    /\ expr.tag = "Variable" =>
         ((ires.kind = "err" /\ ires.err = "UnboundVariable" /\ ires.name = expr.name)
            <=> expr.name \notin DOMAIN ctx0.env)
    /\ expr.tag = "Variable" /\ expr.name \in DOMAIN ctx0.env =>
         (ires.kind = "ok" /\ ires.ty = ctx0.env[expr.name])
    /\ RaiseEvents(ires.log) # {} =>
         /\ ires.kind # "ok"
         /\ RaiseEvents(ires.log) = {Len(ires.log)}
         /\ LET f == ires.log[Len(ires.log)].failure IN
              \A k \in DOMAIN f : k \in DOMAIN ires /\ ires[k] = f[k]
         /\ DOMAIN ires \cap {"ty", "subs", "ctx"} = {}

\* an unbound variable in function position of a Call inside a Let body
\* failed the whole run, the Call's argument being a Number
C8_Witness ==
  /\ ires # NoResult
  /\ ires.kind = "err" /\ ires.err = "UnboundVariable"
  /\ ires.depth = 2
  /\ expr.tag = "Let" /\ expr.body.tag = "Call"
  /\ expr.body.func = EVariable(ires.name)
  /\ expr.body.arg.tag = "Number"

\* C10: in a successful Call the bindings accumulated while inferring func
\* and arg are in force when Func(arg_ty, ret) is unified against func_ty: the
\* function's type under them is not a Named type (that Call fails with
\* TypeMismatch), and the returned substitution agrees with every one of them.
C10_CallKeepsBindings ==
  (ires # NoResult /\ expr.tag = "Call" /\ ires.kind = "ok") =>
    LET f == ires.parts[1]
        a == ires.parts[2]
        acc == AddAssign(f.subs, a.subs)
    IN /\ apply_subs(f.ty, acc).tag # "Named"
       /\ \A v \in DOMAIN acc :
            apply_subs(Variable(v), ires.subs) = apply_subs(acc[v], ires.subs)

\* the number of nodes of an expression
RECURSIVE ExprSize(_)
ExprSize(e) ==
  CASE e.tag = "Func" -> 1 + ExprSize(e.body)
    [] e.tag = "Call" -> 1 + ExprSize(e.func) + ExprSize(e.arg)
    [] e.tag = "If" -> 1 + ExprSize(e.condition) + ExprSize(e.true_branch)
                         + ExprSize(e.false_branch)
    [] e.tag = "Let" -> 1 + ExprSize(e.expr) + ExprSize(e.body)
    [] OTHER -> 1

\* the unification run has ended, with the substitution or the failure that
\* unify(x, y) gives
UnifyFinished == ustack = <<>> /\ uret # NoResult /\ uret = unify(x, y)

\* an inference run infers each node of the expression at most once, and
\* exactly once when it succeeds
InferDescends ==
  (expr # NoExpr /\ ires # NoResult) =>
    /\ ires.calls <= ExprSize(expr)
    /\ ires.kind = "ok" => ires.calls = ExprSize(expr)

\* C9: infer ends, with a result or a failure, on every expression and
\* context, having inferred no node twice, and every unify run that is
\* started ends.
C9_Terminates == []InferDescends /\ <>(UnifyFinished \/ expr # NoExpr)

\* a unification three calls deep is in progress
C9_Witness ==
  /\ expr = NoExpr
  /\ Len(ustack) = 3
  /\ ustack[2].phase = "to"
  /\ ustack[2].s1 # EmptySubs

\* C11: the substitution an If returns includes the bindings produced while
\* inferring its condition: it agrees with every one of them, and a Func whose
\* parameter is called on a Number in the condition of its If body has the
\* constrained type Func(Number, Bool) as its from side, as in
\* Func{g, If{Call{g, 1}, 1, 2}} : Func(Func(Number, Bool), Number).
C11_IfKeepsConditionBindings ==
  (ires # NoResult /\ ires.kind = "ok") =>
    /\ expr.tag = "If" =>
         LET c == ires.parts[1] IN
           \A v \in DOMAIN c.subs :
             /\ v \in DOMAIN ires.subs
             /\ apply_subs(Variable(v), ires.subs) = apply_subs(c.subs[v], ires.subs)
    /\ (expr.tag = "Func" /\ expr.body.tag = "If"
          /\ expr.body.condition = ECall(EVariable(expr.param), ENumber(1))) =>
         ires.ty.from = Func(Named("Number"), Named("Bool"))
    /\ expr = FuncOverIfExample =>
         ires.ty = Func(Func(Named("Number"), Named("Bool")), Named("Number"))

\* C12: the narrowing step of a Call never fails: no run ends with the failure
\* of try_into_func, whatever the expression and the context, and in a
\* successful Call the type of func under the returned substitution is a Func.
C12_NarrowNeverFails ==
  ires # NoResult =>
    /\ ires.kind # "ok" => ires.site # "Call.narrow"
    /\ (ires.kind = "ok" /\ expr.tag = "Call") =>
         apply_subs(ires.parts[1].ty, ires.subs).tag = "Func"

\* a Call succeeded whose func had a type variable as its type: the
\* unification bound it and the narrowing found a Func
C12_Witness ==
  /\ ires # NoResult /\ ires.kind = "ok"
  /\ expr.tag = "Call"
  /\ ires.parts[1].ty.tag = "Variable"
  /\ ires.parts[1].ty.name \in DOMAIN ires.subs

====
